---- MODULE Spec2Model ----
(***************************************************************************)
(* Verification model of the F1DataAnalysis helper functions in            *)
(* src/src/utils.py (fuel_correction, get_acc_time, get_acc_df,            *)
(* get_driver_stint_models, compare_car_speeds,                            *)
(* compute_track_dominance_multi) and of plot_track_dominance in           *)
(* src/src/plotset.py.                                                     *)
(*                                                                         *)
(* Units.  Times are integers in milliseconds (0.001 s), so "rounded to 2  *)
(* decimals" is "rounded to a multiple of 10".  Speeds are integers in     *)
(* km/h.  The fuel correction factor is in ms per kg (0.035 s/kg = 35).    *)
(* Quotients are kept exact as numerator/denominator and only rounded      *)
(* where the code rounds.                                                  *)
(***************************************************************************)
EXTENDS Integers, Sequences, FiniteSets, TLC

VARIABLES
    pc,            \* position of the running call: "call", "loop", "done", "raised"
    ret,           \* value returned to the caller (NoValue until the call returns)
    exc,           \* exception that reached the caller ("none" when there is none)
    total_laps,    \* session.total_laps
    iFuelLoad,     \* fuel_correction argument
    FC_factor,     \* fuel_correction argument (ms per kg)
    df,            \* fuel_correction argument: rows [LapNumber, LapTime]
    tel,           \* get_acc_time argument df: rows [Time, Speed]
    target_speed,  \* get_acc_time argument
    session_drivers, \* session.drivers, as the list of their abbreviations
    car_data,      \* driver -> lap-1 car data, rows [Time, Speed]
    driver_dict,   \* get_acc_df local: abbreviation -> <<0-100, 100-200>>
    di,            \* get_acc_df local: number of drivers already processed
    drivers,       \* the drivers argument (list of abbreviations)
    session_laps,  \* session.laps: driver -> rows of the lap table
    results,       \* get_driver_stint_models local: driver -> list of models
    stint_models,  \* get_driver_stint_models local: models of the current driver
    stint_groups,  \* the groups of laps.groupby('Stint') not yet visited
    dj,            \* number of drivers already processed by the running call
    printed,       \* what the call has printed: <<driver, stint>> of failed fits
    fastest_tel,   \* driver -> telemetry of the fastest lap
    corner_df,     \* circuit_info.corners: corner number -> Distance
    corner_inputs, \* compare_car_speeds argument: category -> corner numbers
    delta,         \* compare_car_speeds argument
    speed_results, \* compare_car_speeds local results: driver -> metrics
    circuit_length, \* compute_track_dominance_multi argument
    window_size,   \* compute_track_dominance_multi argument
    rotation,      \* compute_track_dominance_multi argument (None or degrees)
    colors_map,    \* compute_track_dominance_multi argument (None or a dict)
    plot_colors    \* plot_track_dominance: the colors given to LineCollection

ctlVars  == <<pc, ret, exc>>
fuelVars == <<total_laps, iFuelLoad, FC_factor, df>>
accVars  == <<tel, target_speed>>
accDfVars == <<session_drivers, car_data, driver_dict, di>>
callVars == <<drivers, dj>>
stintVars == <<session_laps, results, stint_models, stint_groups, printed>>
cornerVars == <<corner_df, corner_inputs, delta, speed_results>>
domVars == <<circuit_length, window_size, rotation, colors_map, plot_colors>>
vars     == <<pc, ret, exc, total_laps, iFuelLoad, FC_factor, df,
              tel, target_speed, session_drivers, car_data, driver_dict, di,
              drivers, session_laps, results, stint_models, stint_groups, dj,
              printed, fastest_tel, corner_df, corner_inputs, delta,
              speed_results, circuit_length, window_size, rotation, colors_map,
              plot_colors>>

\* what a call hands back: nothing (it is running or it raised) or a value
NoValue == [returned |-> FALSE]
Returned(x) == [returned |-> TRUE, value |-> x]

(***************************************************************************)
(* Bounds of the model                                                     *)
(***************************************************************************)
MaxLaps == 3        \* largest session.total_laps and largest first lap of a stint
NegLaps == 2        \* total_laps ranges down to -NegLaps
MaxRows == 2        \* most rows of a fuel_correction input
MaxSamples == 3     \* most telemetry samples given to get_acc_time
MaxDrivers == 2     \* most drivers of a session or of a drivers argument
MaxStintLen == 11   \* most laps of a stint in the lap table
MaxLen == 3         \* largest circuit_length
MaxWindow == 3      \* largest window_size

(***************************************************************************)
(* Generic helpers                                                         *)
(***************************************************************************)
Abs(x) == IF x < 0 THEN 0 - x ELSE x

\* floor(num / den) for den > 0
FloorDiv(num, den) == num \div den

\* num/den (den > 0) rounded to the nearest integer, ties to the even one
\* (numpy's and Python's rounding rule).
RoundHalfEven(num, den) ==
    LET q == FloorDiv(num, den)
        r == num - q * den
    IN  IF 2 * r < den THEN q
        ELSE IF 2 * r > den THEN q + 1
        ELSE IF q % 2 = 0 THEN q ELSE q + 1

\* round(num/den, 2) for a value in ms: the nearest multiple of 10 ms; den # 0
Round2(num, den) ==
    IF den > 0 THEN 10 * RoundHalfEven(num, 10 * den)
    ELSE 10 * RoundHalfEven(0 - num, 10 * (0 - den))

(***************************************************************************)
(* fuel_correction (utils.py 7-35)                                         *)
(***************************************************************************)
DefaultFuelLoad == 108
DefaultFCFactor == 35

\* iFuelLoad/laps raises ZeroDivisionError exactly when laps = 0
FuelRaisesValidated(laps) == laps <= 0
FuelRaises(laps) == laps = 0

\* round(LapTime - (laps - LapNumber) * fuel_burn * fuel_corr, 2) for one row,
\* with fuel_burn = load/laps: the exact value is
\*   (LapTime*laps - (laps - LapNumber)*load*factor) / laps
FuelCorrectedAdded(laps, load, factor, row) ==
    Round2(row.LapTime * laps + (laps - row.LapNumber) * load * factor, laps)
FuelCorrected(laps, load, factor, row) ==
    Round2(row.LapTime * laps - (laps - row.LapNumber) * load * factor, laps)

\* the returned Series: one corrected time per row of df, in df's order
FuelCorrectionSeries(laps, load, factor, d) ==
    [i \in 1..Len(d) |-> FuelCorrected(laps, load, factor, d[i])]

LapTimeValues == {90000, 90004, 90006, 90015}
FuelLoads == {0, 1, DefaultFuelLoad}
FCFactors == {0, DefaultFCFactor}

\* stints: consecutive lap numbers, lap times with millisecond precision
StintFrames ==
    UNION { { [i \in 1..n |-> [LapNumber |-> s + i - 1, LapTime |-> t[i]]]
              : t \in [1..n -> LapTimeValues] }
            : <<s, n>> \in (1..MaxLaps) \X (0..MaxRows) }

FuelIdle ==
    /\ total_laps = 1
    /\ iFuelLoad = 0
    /\ FC_factor = 0
    /\ df = <<>>

AccIdle ==
    /\ tel = <<>>
    /\ target_speed = 0

AccDfIdle ==
    /\ session_drivers = <<>>
    /\ car_data = <<>>
    /\ driver_dict = <<>>
    /\ di = 0

CallIdle ==
    /\ drivers = <<>>
    /\ dj = 0

StintIdle ==
    /\ session_laps = <<>>
    /\ results = <<>>
    /\ stint_models = <<>>
    /\ stint_groups = <<>>
    /\ printed = {}

CornerIdle ==
    /\ corner_df = <<>>
    /\ corner_inputs = <<>>
    /\ delta = 0
    /\ speed_results = <<>>

DomIdle ==
    /\ circuit_length = 0
    /\ window_size = 0
    /\ rotation = 0
    /\ colors_map = <<>>
    /\ plot_colors = <<>>

\* everything that only the calls taking a drivers argument use
NoDriversCall ==
    /\ CallIdle
    /\ StintIdle
    /\ CornerIdle
    /\ DomIdle
    /\ fastest_tel = <<>>

InitFuel ==
    /\ pc = "call"
    /\ ret = NoValue
    /\ exc = "none"
    /\ total_laps \in (0 - NegLaps)..MaxLaps
    /\ iFuelLoad \in FuelLoads
    /\ FC_factor \in FCFactors
    /\ df \in StintFrames
    /\ AccIdle
    /\ AccDfIdle
    /\ NoDriversCall

\* the whole call of fuel_correction(session, df, iFuelLoad, FC_factor)
fuel_correction ==
    /\ pc = "call"
    /\ IF FuelRaises(total_laps)
       THEN /\ pc' = "raised"
            /\ exc' = "ZeroDivisionError"
            /\ ret' = NoValue
       ELSE /\ pc' = "done"
            /\ exc' = "none"
            /\ ret' = Returned(FuelCorrectionSeries(total_laps, iFuelLoad, FC_factor, df))
    /\ UNCHANGED <<fuelVars, accVars, accDfVars, callVars, stintVars, cornerVars, fastest_tel, domVars>>

NextFuel == fuel_correction

SpecFuel == InitFuel /\ [][NextFuel]_vars

(***************************************************************************)
(* Claims about fuel_correction                                            *)
(***************************************************************************)
\* every row's lap number lies in [1, total_laps]
LapsInRange == \A i \in 1..Len(df) : df[i].LapNumber \in 1..total_laps

\* the exact correction of row i, times total_laps:
\*   (total_laps - LapNumber) * iFuelLoad * FC_factor
SubtractedTimesLaps(i) == (total_laps - df[i].LapNumber) * iFuelLoad * FC_factor

\* C4 as stated: for a stint with lap numbers in [1, N], N > 0, the output has
\* one corrected time per input lap and, for every lap before lap N, the
\* corrected time is at most the raw lap time.
C4_Original ==
    (pc = "done" /\ total_laps > 0 /\ LapsInRange) =>
        /\ Len(ret.value) = Len(df)
        /\ \A i \in 1..Len(df) :
              df[i].LapNumber < total_laps => ret.value[i] <= df[i].LapTime

\* C4 amended: one corrected time per input lap; each is the raw time minus
\* (N - lap) * (load / N) * factor rounded to 2 decimals, i.e. a whole number
\* of centiseconds within 0.005 s of the exact difference; for a lap before
\* lap N it is at most the raw time whenever the raw time is a whole number
\* of centiseconds or the amount subtracted is at least 0.005 s.
C4_FuelCorrectionRounded ==
    (pc = "done" /\ total_laps > 0 /\ LapsInRange) =>
        /\ Len(ret.value) = Len(df)
        /\ \A i \in 1..Len(df) :
              /\ ret.value[i] % 10 = 0
              /\ Abs(ret.value[i] * total_laps
                     - (df[i].LapTime * total_laps - SubtractedTimesLaps(i)))
                   <= 5 * total_laps
              /\ (/\ df[i].LapNumber < total_laps
                  /\ \/ df[i].LapTime % 10 = 0
                     \/ SubtractedTimesLaps(i) >= 5 * total_laps)
                 => ret.value[i] <= df[i].LapTime

\* a two-lap stint inside [1, N] whose first lap was corrected downwards
C4_Witness ==
    /\ pc = "done"
    /\ total_laps > 0
    /\ LapsInRange
    /\ Len(df) = 2
    /\ df[1].LapNumber < total_laps
    /\ ret.value[1] < df[1].LapTime
    /\ ret.value[2] <= df[2].LapTime

\* C5 as stated: for every total-lap count N <= 0 the call fails with a
\* divide-by-zero or invalid-input error and returns no corrected times.
C5_Original ==
    (pc # "call" /\ total_laps <= 0) =>
        /\ pc = "raised"
        /\ exc \in {"ZeroDivisionError", "ValueError"}
        /\ ret = NoValue

\* C5 amended: the call fails (ZeroDivisionError, nothing returned) exactly
\* when N = 0; for a negative N it raises nothing and returns one corrected
\* time per lap, within 0.005 s of LapTime - (N - lap) * (load / N) * factor.
C5_FailsOnlyOnZeroLaps ==
    (pc # "call") =>
        /\ total_laps = 0 =>
              pc = "raised" /\ exc = "ZeroDivisionError" /\ ret = NoValue
        /\ total_laps < 0 =>
              /\ pc = "done"
              /\ exc = "none"
              /\ Len(ret.value) = Len(df)
              /\ \A i \in 1..Len(df) :
                    Abs(ret.value[i] * total_laps
                        - (df[i].LapTime * total_laps - SubtractedTimesLaps(i)))
                      <= 5 * (0 - total_laps)

\* a negative total-lap count for which corrected times were returned
C5_Witness ==
    /\ pc = "done"
    /\ total_laps < 0
    /\ Len(df) > 0
    /\ Len(ret.value) = Len(df)
    /\ iFuelLoad > 0
    /\ FC_factor > 0

(***************************************************************************)
(* get_acc_time (utils.py 38-68)                                           *)
(*                                                                         *)
(* The rows of df are numpy floats: a division by zero gives nan or +-inf  *)
(* (a warning, no exception).  A float is modelled as Num(x), x an integer *)
(* number of ms, or as one of NaN, PosInf, NegInf.                         *)
(***************************************************************************)
Num(x) == [kind |-> "num", v |-> x]
NaN == [kind |-> "nan", v |-> 0]
PosInf == [kind |-> "inf", v |-> 1]
NegInf == [kind |-> "inf", v |-> 0 - 1]
IsNum(f) == f.kind = "num"

\* a - b on floats
FloatSub(a, b) ==
    IF IsNum(a) /\ IsNum(b) THEN Num(a.v - b.v)
    ELSE IF a = NaN \/ b = NaN THEN NaN
    ELSE IF IsNum(b) THEN a
    ELSE IF IsNum(a) THEN (IF b = PosInf THEN NegInf ELSE PosInf)
    ELSE IF a = b THEN NaN
    ELSE a

\* df[df.Speed > target_speed].index: the positions (1-based) of the samples
\* whose speed exceeds the target
ExceedingIndex(d, target) == {i \in 1..Len(d) : d[i].Speed > target}

\* .index[0] raises IndexError when no sample exceeds the target
AccTimeRaises(d, target) == ExceedingIndex(d, target) = {}

\* .index[0]: the first sample above the target
FirstExceeding(d, target) ==
    CHOOSE i \in ExceedingIndex(d, target) :
        \A j \in ExceedingIndex(d, target) : i <= j

\* df.iloc[index[0] - 1]: the row before; for the first row the position is
\* -1, which iloc resolves to the last row of df
PredecessorRow(d, idx) == IF idx = 1 THEN Len(d) ELSE idx - 1

\* round(t1 + (t2 - t1)*(target_speed - s1)/(s2 - s1), 2)
Interpolate(t1, s1, t2, s2, target) ==
    IF s2 = s1
    THEN LET n == (t2 - t1) * (target - s1)
         IN  IF n = 0 THEN NaN ELSE IF n > 0 THEN PosInf ELSE NegInf
    ELSE Num(Round2(t1 * (s2 - s1) + (t2 - t1) * (target - s1), s2 - s1))

\* the value get_acc_time returns when it does not raise
AccTime(d, target) ==
    LET idx == FirstExceeding(d, target)
        p   == PredecessorRow(d, idx)
    IN  Interpolate(d[p].Time, d[p].Speed, d[idx].Time, d[idx].Speed, target)

SpeedValues == {50, 150, 250}
TimeValues == {0, 1234, 2500, 4015}
Target100 == 100
Target200 == 200

\* telemetry: times strictly increasing, any speeds
Telemetries ==
    UNION { { [i \in 1..n |-> [Time |-> tm[i], Speed |-> sp[i]]]
              : <<tm, sp>> \in { t \in [1..n -> TimeValues] :
                                   \A i \in 1..(n - 1) : t[i] < t[i + 1] }
                               \X [1..n -> SpeedValues] }
            : n \in 1..MaxSamples }

InitAccTime ==
    /\ pc = "call"
    /\ ret = NoValue
    /\ exc = "none"
    /\ tel \in Telemetries
    /\ target_speed \in {Target100, Target200}
    /\ FuelIdle
    /\ AccDfIdle
    /\ NoDriversCall

\* the whole call of get_acc_time(df, target_speed)
get_acc_time ==
    /\ pc = "call"
    /\ IF AccTimeRaises(tel, target_speed)
       THEN /\ pc' = "raised"
            /\ exc' = "IndexError"
            /\ ret' = NoValue
       ELSE /\ pc' = "done"
            /\ exc' = "none"
            /\ ret' = Returned(AccTime(tel, target_speed))
    /\ UNCHANGED <<fuelVars, accVars, accDfVars, callVars, stintVars, cornerVars, fastest_tel, domVars>>

NextAccTime == get_acc_time

SpecAccTime == InitAccTime /\ [][NextAccTime]_vars

(***************************************************************************)
(* get_acc_df (utils.py 71-105)                                            *)
(***************************************************************************)
AllDrivers == <<"VER", "NOR", "HAM", "LEC">>

\* the try body: [get_acc_time(df,100), round(get_acc_time(df,200) -
\* get_acc_time(df,100), 2)]; the bare except turns any exception of the
\* three calls into [nan, nan]
AccRowPartial(d) ==
    IF AccTimeRaises(d, Target100) THEN <<NaN, NaN>>
    ELSE IF AccTimeRaises(d, Target200) THEN <<AccTime(d, Target100), NaN>>
    ELSE <<AccTime(d, Target100),
           FloatSub(AccTime(d, Target200), AccTime(d, Target100))>>
AccRow(d) ==
    IF AccTimeRaises(d, Target100) \/ AccTimeRaises(d, Target200)
    THEN <<NaN, NaN>>
    ELSE <<AccTime(d, Target100),
           FloatSub(AccTime(d, Target200), AccTime(d, Target100))>>

\* lap-1 car data: three samples at fixed times, any speeds
Lap1Telemetries ==
    { [i \in 1..3 |-> [Time |-> <<0, 1234, 2500>>[i], Speed |-> sp[i]]]
      : sp \in [1..3 -> SpeedValues] }

InitAccDf ==
    /\ pc = "loop"
    /\ ret = NoValue
    /\ exc = "none"
    /\ \E n \in 1..MaxDrivers :
          /\ session_drivers = SubSeq(AllDrivers, 1, n)
          /\ car_data \in [{AllDrivers[i] : i \in 1..n} -> Lap1Telemetries]
    /\ driver_dict = <<>>
    /\ di = 0
    /\ FuelIdle
    /\ AccIdle
    /\ NoDriversCall

\* one iteration of "for driver in drivers" (lines 97-103)
AccDfIterate ==
    /\ pc = "loop"
    /\ di < Len(session_drivers)
    /\ LET driver == session_drivers[di + 1]
       IN  driver_dict' = (driver :> AccRow(car_data[driver])) @@ driver_dict
    /\ di' = di + 1
    /\ UNCHANGED <<ctlVars, fuelVars, accVars, session_drivers, car_data, callVars, stintVars, cornerVars, fastest_tel, domVars>>

\* line 105: the DataFrame with one row per key of driver_dict
AccDfReturn ==
    /\ pc = "loop"
    /\ di = Len(session_drivers)
    /\ pc' = "done"
    /\ ret' = Returned([columns |-> <<"0-100", "100-200">>, rows |-> driver_dict])
    /\ UNCHANGED <<exc, fuelVars, accVars, accDfVars, callVars, stintVars, cornerVars, fastest_tel, domVars>>

NextAccDf == AccDfIterate \/ AccDfReturn

SpecAccDf == InitAccDf /\ [][NextAccDf]_vars

(***************************************************************************)
(* Claims about get_acc_time and get_acc_df                                *)
(***************************************************************************)
\* no sample of telemetry d is faster than the target
NeverExceeds(d, target) == \A i \in 1..Len(d) : d[i].Speed <= target

\* C8: whenever some sample exceeds target_speed, get_acc_time returns the
\* time interpolated between the first sample above the target and the sample
\* immediately before it in the sequence, a time between the times of those
\* two consecutive samples (up to the rounding to 2 decimals); when no sample
\* exceeds the target it raises an index error.
C8_InterpolatesBetweenNeighbours ==
    (pc # "call" /\ target_speed > 0) =>
        IF NeverExceeds(tel, target_speed)
        THEN pc = "raised" /\ exc = "IndexError"
        ELSE /\ pc = "done"
             /\ LET i == FirstExceeding(tel, target_speed)
                IN  /\ i > 1
                    /\ ret.value = Interpolate(tel[i - 1].Time, tel[i - 1].Speed,
                                               tel[i].Time, tel[i].Speed,
                                               target_speed)
                    /\ IsNum(ret.value)
                    /\ tel[i - 1].Time - 5 <= ret.value.v
                    /\ ret.value.v <= tel[i].Time + 5

\* C2: get_acc_df never lets a per-driver failure reach the caller: every
\* processed driver has a row; a driver whose lap-1 telemetry never exceeds
\* 100 km/h, or never exceeds 200 km/h, has the row (NaN, NaN); every other
\* driver has its computed 0-100 and 100-200 values; the returned table has
\* exactly one row per driver of the session.
C2_PerDriverFailureAbsorbed ==
    /\ exc = "none"
    /\ pc \in {"loop", "done"}
    /\ \A k \in 1..di :
          LET d == session_drivers[k]
              t == car_data[d]
          IN  /\ d \in DOMAIN driver_dict
              /\ IF NeverExceeds(t, Target100) \/ NeverExceeds(t, Target200)
                 THEN driver_dict[d] = <<NaN, NaN>>
                 ELSE driver_dict[d] =
                        <<AccTime(t, Target100),
                          FloatSub(AccTime(t, Target200), AccTime(t, Target100))>>
    /\ pc = "done" =>
          /\ ret.returned
          /\ ret.value.columns = <<"0-100", "100-200">>
          /\ ret.value.rows = driver_dict
          /\ DOMAIN ret.value.rows =
                {session_drivers[k] : k \in 1..Len(session_drivers)}
          /\ Cardinality(DOMAIN ret.value.rows) = Len(session_drivers)

\* a finished batch in which the first driver never reached 100 km/h and the
\* second driver, processed after it, has both values computed
C2_Witness ==
    /\ pc = "done"
    /\ Len(session_drivers) >= 2
    /\ NeverExceeds(car_data[session_drivers[1]], Target100)
    /\ ret.value.rows[session_drivers[1]] = <<NaN, NaN>>
    /\ IsNum(ret.value.rows[session_drivers[2]][1])
    /\ IsNum(ret.value.rows[session_drivers[2]][2])

(***************************************************************************)
(* get_driver_stint_models (utils.py 108-169)                              *)
(*                                                                         *)
(* A row of the lap table: LapNumber, LapTime (ms), Stint, Compound,       *)
(* TyreLife, TrackStatus (the string of status digits seen during the lap, *)
(* as a sequence of one-character strings), PitInNull / PitOutNull         *)
(* (PitInTime / PitOutTime is null), and Quick: whether the library's      *)
(* pick_quicklaps keeps the lap.                                           *)
(***************************************************************************)
MinStintLaps == 10

\* str.contains(ch) on a TrackStatus string
Contains(ts, ch) == \E i \in 1..Len(ts) : ts[i] = ch

\* lines 131-134: .pick_quicklaps()
IsQuickLap(r) == r.Quick
PickQuicklaps(rows) == SelectSeq(rows, IsQuickLap)

\* line 137: laps[~(laps.TrackStatus.str.contains('4'))]
KeptByTrackStatus(r) == ~Contains(r.TrackStatus, "4")
DropFlagged(rows) == SelectSeq(rows, KeptByTrackStatus)

\* line 141: laps.groupby('Stint'): the groups in increasing order of Stint,
\* each with its rows in table order
StintKeys(rows) == {rows[i].Stint : i \in 1..Len(rows)}
RECURSIVE GroupsFrom(_, _)
GroupsFrom(rows, keys) ==
    IF keys = {} THEN <<>>
    ELSE LET k == CHOOSE x \in keys : \A y \in keys : x <= y
             InGroup(r) == r.Stint = k
         IN  <<[stint |-> k, rows |-> SelectSeq(rows, InGroup)]>>
             \o GroupsFrom(rows, keys \ {k})
GroupByStint(rows) == GroupsFrom(rows, StintKeys(rows))

\* line 142: if len(stint_df) < 10: continue
TooShortInclusive(stint_df) == Len(stint_df) <= MinStintLaps
TooShort(stint_df) == Len(stint_df) < MinStintLaps

\* line 146: keep the laps whose PitInTime and PitOutTime are both null
NotInOutLap(r) == r.PitInNull /\ r.PitOutNull
ExcludeInOutLaps(stint_df) == SelectSeq(stint_df, NotInOutLap)

\* lines 154-160: the fitted model, described by the sample it was fitted on:
\* the row labels, the regressor TyreLife and the fuel-corrected lap times
FitModel(laps, load, factor, stint_df) ==
    [nobs       |-> Len(stint_df),
     row_labels |-> [i \in 1..Len(stint_df) |-> stint_df[i].LapNumber],
     exog       |-> [i \in 1..Len(stint_df) |-> stint_df[i].TyreLife],
     endog      |-> FuelCorrectionSeries(laps, load, factor, stint_df)]

\* ----- the lap tables the model draws from -----
Statuses == {<<"1">>, <<"2">>, <<"4">>, <<"5">>, <<"1", "2", "4">>}

\* a stint of sh.n laps starting at lap `first`: its first lap is an out lap
\* when sh.outLap, its last lap an in lap when sh.inLap, every lap is a pit
\* lap when sh.allPit; its second lap has track status sh.status and is a
\* slow lap (dropped by pick_quicklaps) when sh.slow
StintRows(num, first, compound, sh) ==
    [i \in 1..sh.n |->
        [LapNumber   |-> first + i - 1,
         LapTime     |-> 90003 + 57 * i + (IF i = 2 /\ sh.slow THEN 20000 ELSE 0),
         Stint       |-> num,
         Compound    |-> compound,
         TyreLife    |-> i,
         TrackStatus |-> IF i = 2 THEN sh.status ELSE <<"1">>,
         Quick       |-> ~(i = 2 /\ sh.slow),
         PitOutNull  |-> ~(sh.allPit \/ (i = 1 /\ sh.outLap)),
         PitInNull   |-> ~(sh.allPit \/ (i = sh.n /\ sh.inLap))]]

FirstStintShapes ==
    [n : (MinStintLaps - 2)..MaxStintLen, outLap : BOOLEAN, inLap : BOOLEAN,
     allPit : {FALSE}, status : Statuses, slow : BOOLEAN]

LaterStintShapes ==
    { [n |-> 0, outLap |-> FALSE, inLap |-> FALSE, allPit |-> FALSE,
       status |-> <<"1">>, slow |-> FALSE],
      [n |-> MinStintLaps - 1, outLap |-> FALSE, inLap |-> FALSE, allPit |-> FALSE,
       status |-> <<"1">>, slow |-> FALSE],
      [n |-> MinStintLaps, outLap |-> TRUE, inLap |-> FALSE, allPit |-> FALSE,
       status |-> <<"1">>, slow |-> FALSE],
      [n |-> MinStintLaps, outLap |-> FALSE, inLap |-> FALSE, allPit |-> TRUE,
       status |-> <<"1">>, slow |-> FALSE] }

LapTable(sh1, sh2) ==
    StintRows(1, 1, "SOFT", sh1) \o StintRows(2, sh1.n + 1, "HARD", sh2)

\* the first driver's table varies fully, the other drivers' tables over the
\* stints around the threshold
FullTables == {LapTable(a, b) : <<a, b>> \in FirstStintShapes \X LaterStintShapes}
SmallTables ==
    {LapTable(a, b) : <<a, b>> \in
        { sh \in FirstStintShapes :
            /\ ~sh.outLap /\ ~sh.inLap /\ ~sh.slow
            /\ \/ sh.n = MinStintLaps - 1 /\ sh.status = <<"1">>
               \/ sh.n = MinStintLaps /\ sh.status \in {<<"1">>, <<"2">>} }
        \X {sh \in LaterStintShapes : sh.n = 0}}

InitStint ==
    /\ pc = "driver"
    /\ ret = NoValue
    /\ exc = "none"
    /\ total_laps = 2 * MaxStintLen
    /\ iFuelLoad = DefaultFuelLoad
    /\ FC_factor = DefaultFCFactor
    /\ df = <<>>
    /\ \E n \in 1..MaxDrivers :
          /\ drivers = SubSeq(AllDrivers, 1, n)
          /\ \E first \in FullTables :
                \E others \in [{AllDrivers[i] : i \in 2..n} -> SmallTables] :
                    session_laps = (AllDrivers[1] :> first) @@ others
    /\ results = <<>>
    /\ stint_models = <<>>
    /\ stint_groups = <<>>
    /\ dj = 0
    /\ printed = {}
    /\ AccIdle
    /\ AccDfIdle
    /\ CornerIdle
    /\ DomIdle
    /\ fastest_tel = <<>>

\* lines 130-139: the head of "for drv_abbr in drivers"
StintDriverBegin ==
    /\ pc = "driver"
    /\ dj < Len(drivers)
    /\ LET laps == DropFlagged(PickQuicklaps(session_laps[drivers[dj + 1]]))
       IN  stint_groups' = GroupByStint(laps)
    /\ stint_models' = <<>>
    /\ pc' = "stint"
    /\ UNCHANGED <<ret, exc, fuelVars, accVars, accDfVars, drivers, session_laps,
                   results, dj, printed, cornerVars, fastest_tel, domVars>>

\* lines 141-164: one iteration of "for stint_num, stint_df in laps.groupby"
\* (sm.OLS(...).fit() is the statistics library's: it returns a model or
\* raises, and the except clause prints the error)
StintIterate ==
    /\ pc = "stint"
    /\ stint_groups # <<>>
    /\ LET g        == Head(stint_groups)
           drv_abbr == drivers[dj + 1]
           stint_df == ExcludeInOutLaps(g.rows)
       IN  IF TooShort(g.rows) \/ stint_df = <<>>
           THEN UNCHANGED <<stint_models, printed>>
           ELSE \E fitted \in BOOLEAN :
                  IF fitted
                  THEN /\ stint_models' =
                            Append(stint_models,
                                   <<stint_df[1].Compound,
                                     FitModel(total_laps, iFuelLoad, FC_factor,
                                              stint_df)>>)
                       /\ UNCHANGED printed
                  ELSE /\ printed' = printed \cup {<<drv_abbr, g.stint>>}
                       /\ UNCHANGED stint_models
    /\ stint_groups' = Tail(stint_groups)
    /\ UNCHANGED <<ctlVars, fuelVars, accVars, accDfVars, drivers, session_laps,
                   results, dj, cornerVars, fastest_tel, domVars>>

\* lines 166-167: the tail of the driver loop
StintDriverEnd ==
    /\ pc = "stint"
    /\ stint_groups = <<>>
    /\ results' = IF stint_models # <<>>
                  THEN (drivers[dj + 1] :> stint_models) @@ results
                  ELSE results
    /\ dj' = dj + 1
    /\ pc' = "driver"
    /\ UNCHANGED <<ret, exc, fuelVars, accVars, accDfVars, drivers, session_laps,
                   stint_models, stint_groups, printed, cornerVars, fastest_tel, domVars>>

\* line 169
StintReturn ==
    /\ pc = "driver"
    /\ dj = Len(drivers)
    /\ pc' = "done"
    /\ ret' = Returned(results)
    /\ UNCHANGED <<exc, fuelVars, accVars, accDfVars, callVars, stintVars, cornerVars, fastest_tel, domVars>>

NextStint == StintDriverBegin \/ StintIterate \/ StintDriverEnd \/ StintReturn

SpecStint == InitStint /\ [][NextStint]_vars

(***************************************************************************)
(* Claims about get_driver_stint_models                                    *)
(***************************************************************************)
\* the stint numbers in driver d's lap table
StintsOf(d) == {session_laps[d][i].Stint : i \in 1..Len(session_laps[d])}

\* the lap numbers of the qualifying laps of stint s of driver d: the laps
\* left after the quick-lap filter and the track-status filter of the code
QualifyingLaps(d, s) ==
    {session_laps[d][i].LapNumber : i \in
        {j \in 1..Len(session_laps[d]) :
            /\ session_laps[d][j].Stint = s
            /\ session_laps[d][j].Quick
            /\ \A c \in 1..Len(session_laps[d][j].TrackStatus) :
                  session_laps[d][j].TrackStatus[c] # "4"}}

\* the laps of driver d that are pit in/out laps
PitLaps(d) ==
    {session_laps[d][i].LapNumber : i \in
        {j \in 1..Len(session_laps[d]) :
            ~session_laps[d][j].PitInNull \/ ~session_laps[d][j].PitOutNull}}

\* the laps of driver d run under a yellow flag ('2') or a red flag ('5')
YellowRedLaps(d) ==
    {session_laps[d][i].LapNumber : i \in
        {j \in 1..Len(session_laps[d]) :
            \E c \in 1..Len(session_laps[d][j].TrackStatus) :
                session_laps[d][j].TrackStatus[c] \in {"2", "5"}}}

\* the stint of lap number n of driver d
StintOfLap(d, n) ==
    LET i == CHOOSE j \in 1..Len(session_laps[d]) : session_laps[d][j].LapNumber = n
    IN  session_laps[d][i].Stint

\* the laps a stored model was fitted on
SampleOf(m) == {m[2].row_labels[i] : i \in 1..m[2].nobs}

\* the positions in results[d] of the models fitted on laps of stint s
ModelsOfStint(d, s) ==
    IF d \notin DOMAIN results THEN {}
    ELSE {k \in 1..Len(results[d]) :
            \E n \in SampleOf(results[d][k]) : StintOfLap(d, n) = s}

\* C3: for every processed driver and every stint, a stint with 9 or fewer
\* qualifying laps contributes no model; a stint with 10 or more contributes
\* exactly one model unless all its qualifying laps are pit in/out laps or
\* the fit raised, and that model is fitted on exactly the qualifying laps of
\* that stint that are not pit in/out laps, so its sample count is the number
\* of qualifying laps minus the number of pit in/out laps among them.
C3_StintThresholdAndSample ==
    (pc \in {"driver", "done"}) =>
        \A k \in 1..dj :
            LET d == drivers[k]
            IN  \A s \in StintsOf(d) :
                    LET Q == QualifyingLaps(d, s)
                        F == Q \ PitLaps(d)
                        M == ModelsOfStint(d, s)
                    IN  /\ Cardinality(Q) <= 9 => M = {}
                        /\ (Cardinality(Q) >= 10 /\ (F = {} \/ <<d, s>> \in printed))
                              => M = {}
                        /\ (Cardinality(Q) >= 10 /\ F # {} /\ <<d, s>> \notin printed)
                              => /\ Cardinality(M) = 1
                                 /\ \A m \in M :
                                       /\ SampleOf(results[d][m]) = F
                                       /\ results[d][m][2].nobs =
                                            Cardinality(Q)
                                            - Cardinality(Q \cap PitLaps(d))

\* a returned result in which a stint of exactly 10 qualifying laps, two of
\* them pit in/out laps, has a model fitted on 8 laps, and another stint of
\* the same driver with exactly 9 qualifying laps has none
C3_Witness ==
    /\ pc = "done"
    /\ \E d \in DOMAIN results :
          /\ Cardinality(QualifyingLaps(d, 1)) = 10
          /\ Cardinality(QualifyingLaps(d, 1) \cap PitLaps(d)) = 2
          /\ \E m \in ModelsOfStint(d, 1) : results[d][m][2].nobs = 8
          /\ Cardinality(QualifyingLaps(d, 2)) = 9
          /\ ModelsOfStint(d, 2) = {}

\* C10: every lap run under a yellow flag or a red flag is dropped before the
\* laps are grouped into stints: no such lap enters a fitted model, and a
\* stint that has fewer than 10 quick laps once those laps are dropped has no
\* model.
C10_NoYellowRedLapUsed ==
    (pc \in {"driver", "done"}) =>
        \A d \in DOMAIN results :
            /\ \A k \in 1..Len(results[d]) :
                  SampleOf(results[d][k]) \cap YellowRedLaps(d) = {}
            /\ \A s \in StintsOf(d) :
                  Cardinality(QualifyingLaps(d, s) \ YellowRedLaps(d)) < 10
                     => ModelsOfStint(d, s) = {}

(***************************************************************************)
(* compare_car_speeds (utils.py 172-226)                                   *)
(*                                                                         *)
(* A cell of the metrics dict or of the returned table is Num(x), None or  *)
(* NaN; a mean is kept exact as Ratio(sum, count) until it is rounded.     *)
(***************************************************************************)
DefaultDelta == 10

None == [kind |-> "none", v |-> 0]
Ratio(n, d) == [kind |-> "ratio", v |-> <<n, d>>]

RECURSIVE SumSeq(_)
SumSeq(q) == IF q = <<>> THEN 0 ELSE Head(q) + SumSeq(Tail(q))

\* line 209: tel.Speed.max()
TopSpeed(t) ==
    LET i == CHOOSE a \in 1..Len(t) : \A b \in 1..Len(t) : t[b].Speed <= t[a].Speed
    IN  t[i].Speed

\* lines 215-217: the speeds of the samples strictly within +-dlt of corner c
\* (corner_df.iloc[c-1] is the row of corner number c)
InWindow(r, d, dlt) == r.Distance > d - dlt /\ r.Distance < d + dlt
WindowSpeeds(t, cdf, c, dlt) ==
    LET Near(r) == InWindow(r, cdf[c], dlt)
        rows    == SelectSeq(t, Near)
    IN  [i \in 1..Len(rows) |-> rows[i].Speed]

\* lines 213-217: speeds.extend(...) over the corners of one category
RECURSIVE PooledSpeeds(_, _, _, _)
PooledSpeeds(t, cdf, corners, dlt) ==
    IF corners = <<>> THEN <<>>
    ELSE WindowSpeeds(t, cdf, Head(corners), dlt)
         \o PooledSpeeds(t, cdf, Tail(corners), dlt)

\* lines 219-222: sum(speeds)/len(speeds), or None for an empty list
CategoryAverageOrZero(speeds) ==
    IF speeds # <<>> THEN Ratio(SumSeq(speeds), Len(speeds)) ELSE Num(0)
CategoryAverage(speeds) ==
    IF speeds # <<>> THEN Ratio(SumSeq(speeds), Len(speeds)) ELSE None

\* line 220: f"{category.capitalize()}SpeedAvg"
ColumnName(category) ==
    CASE category = "high" -> "HighSpeedAvg"
      [] category = "low" -> "LowSpeedAvg"
      [] category = "medium" -> "MediumSpeedAvg"

\* lines 206-222: the metrics dict of one driver
Metrics(t, cdf, inputs, dlt) ==
    [col \in {"TopSpeed"} \cup {ColumnName(c) : c \in DOMAIN inputs} |->
        IF col = "TopSpeed" THEN Num(TopSpeed(t))
        ELSE LET c == CHOOSE x \in DOMAIN inputs : ColumnName(x) = col
             IN  CategoryAverage(PooledSpeeds(t, cdf, inputs[c], dlt))]

\* line 226, pd.DataFrame(results).T: every driver's dict becomes a numeric
\* column (it always holds the number TopSpeed), in which pandas stores a
\* None as the float NaN
ToFloatCell(x) == IF x = None THEN NaN ELSE x
DataFrameT(res) ==
    [d \in DOMAIN res |-> [col \in DOMAIN res[d] |-> ToFloatCell(res[d][col])]]

\* line 226, round(...): every number to a whole number, NaN stays NaN
RoundCell(x) ==
    IF x.kind = "ratio" THEN Num(RoundHalfEven(x.v[1], x.v[2])) ELSE x
RoundFrame(frame) ==
    [d \in DOMAIN frame |-> [col \in DOMAIN frame[d] |-> RoundCell(frame[d][col])]]

\* ----- the inputs the model draws from -----
CornerDistances == <<15, 22, 300>>
CornerLists == {<<>>, <<1>>, <<1, 2>>, <<3>>}
\* fastest-lap telemetry: samples every 10 m
LapTelemetries ==
    { [i \in 1..3 |-> [Distance |-> 10 * i, X |-> 100 * i, Y |-> 7 * i * i,
                       Speed |-> sp[i]]]
      : sp \in [1..3 -> {100, 201}] }

InitCorner ==
    /\ pc = "driver"
    /\ ret = NoValue
    /\ exc = "none"
    /\ \E n \in 1..MaxDrivers :
          /\ drivers = SubSeq(AllDrivers, 1, n)
          /\ fastest_tel \in [{AllDrivers[i] : i \in 1..n} -> LapTelemetries]
    /\ dj = 0
    /\ corner_df = CornerDistances
    /\ corner_inputs \in [{"high", "low"} -> CornerLists] \cup [{"high"} -> CornerLists]
    /\ delta \in {DefaultDelta, 3}
    /\ speed_results = <<>>
    /\ FuelIdle
    /\ AccIdle
    /\ AccDfIdle
    /\ StintIdle
    /\ DomIdle

\* lines 204-224: one iteration of "for drv in drivers"
CompareIterate ==
    /\ pc = "driver"
    /\ dj < Len(drivers)
    /\ LET drv == drivers[dj + 1]
       IN  speed_results' =
             (drv :> Metrics(fastest_tel[drv], corner_df, corner_inputs, delta))
             @@ speed_results
    /\ dj' = dj + 1
    /\ UNCHANGED <<ctlVars, fuelVars, accVars, accDfVars, drivers, stintVars,
                   corner_df, corner_inputs, delta, fastest_tel, domVars>>

\* line 226
CompareReturn ==
    /\ pc = "driver"
    /\ dj = Len(drivers)
    /\ pc' = "done"
    /\ ret' = Returned(RoundFrame(DataFrameT(speed_results)))
    /\ UNCHANGED <<exc, fuelVars, accVars, accDfVars, callVars, stintVars,
                   cornerVars, fastest_tel, domVars>>

NextCorner == CompareIterate \/ CompareReturn

SpecCorner == InitCorner /\ [][NextCorner]_vars

(***************************************************************************)
(* Claims about compare_car_speeds                                         *)
(***************************************************************************)
\* the positions of the samples of driver d within +-delta of corner c
SamplesNear(d, c) ==
    {i \in 1..Len(fastest_tel[d]) :
        /\ fastest_tel[d][i].Distance > corner_df[c] - delta
        /\ fastest_tel[d][i].Distance < corner_df[c] + delta}

\* number and sum of the pooled samples of a category: every corner of the
\* list contributes the samples in its own window
RECURSIVE SumOver(_, _)
SumOver(d, idx) ==
    IF idx = {} THEN 0
    ELSE LET i == CHOOSE x \in idx : TRUE
         IN  fastest_tel[d][i].Speed + SumOver(d, idx \ {i})
RECURSIVE PooledCount(_, _)
PooledCount(d, corners) ==
    IF corners = <<>> THEN 0
    ELSE Cardinality(SamplesNear(d, Head(corners))) + PooledCount(d, Tail(corners))
RECURSIVE PooledSum(_, _)
PooledSum(d, corners) ==
    IF corners = <<>> THEN 0
    ELSE SumOver(d, SamplesNear(d, Head(corners))) + PooledSum(d, Tail(corners))

\* C6 as stated: in the returned table, a category whose corner list is empty
\* or whose windows hold no sample has the value None (not 0, not NaN), and
\* every other category has the mean of its pooled samples.
C6_Original ==
    (pc = "done") =>
        \A d \in DOMAIN ret.value : \A c \in DOMAIN corner_inputs :
            LET cell == ret.value[d][ColumnName(c)]
                n    == PooledCount(d, corner_inputs[c])
            IN  IF n = 0 THEN cell = None
                ELSE cell.kind = "num" /\ cell.v * n = PooledSum(d, corner_inputs[c])

\* C6 amended: a category without samples is a missing value, never 0: None
\* in the driver's metrics dict and NaN in the returned table; every other
\* category is, in the returned table, the mean of its pooled samples (a
\* sample in the windows of two corners counted twice) rounded to a whole
\* number.
C6_MissingIsNaNInTable ==
    /\ \A d \in DOMAIN speed_results : \A c \in DOMAIN corner_inputs :
          (speed_results[d][ColumnName(c)] = None)
             <=> (PooledCount(d, corner_inputs[c]) = 0)
    /\ (pc = "done") =>
          /\ DOMAIN ret.value = {drivers[k] : k \in 1..Len(drivers)}
          /\ \A d \in DOMAIN ret.value : \A c \in DOMAIN corner_inputs :
                LET cell == ret.value[d][ColumnName(c)]
                    n    == PooledCount(d, corner_inputs[c])
                    sum  == PooledSum(d, corner_inputs[c])
                IN  IF n = 0 THEN cell = NaN
                    ELSE /\ cell.kind = "num"
                         /\ 2 * Abs(cell.v * n - sum) <= n

\* a returned table with a category without samples next to a category whose
\* two corners share a sample
C6_Witness ==
    /\ pc = "done"
    /\ DOMAIN corner_inputs = {"high", "low"}
    /\ corner_inputs["high"] = <<3>>
    /\ corner_inputs["low"] = <<1, 2>>
    /\ \E d \in DOMAIN ret.value :
          /\ ret.value[d]["HighSpeedAvg"] = NaN
          /\ PooledCount(d, corner_inputs["low"]) = 4
          /\ ret.value[d]["LowSpeedAvg"].kind = "num"

(***************************************************************************)
(* compute_track_dominance_multi (utils.py 229-309) and                    *)
(* plot_track_dominance (plotset.py 116-151)                               *)
(*                                                                         *)
(* Interpolated values are kept as integers in units of 1/InterpScale; the *)
(* telemetry samples of the model are 2 m apart, so every interpolated     *)
(* value at an integer distance is a whole number of halves.  A smoothed   *)
(* speed is the pair <<sum, count>> of its window, a track point a pair of *)
(* Ratio cells.                                                            *)
(***************************************************************************)
InterpScale == 2
CircuitInfoRotation == 180

Min(a, b) == IF a <= b THEN a ELSE b
Max(a, b) == IF a >= b THEN a ELSE b

\* line 259: np.linspace(0, circuit_length, num=int(circuit_length)+1)
DistanceGridShort(L) == [i \in 1..L |-> i - 1]
DistanceGrid(L) == [i \in 1..(L + 1) |-> i - 1]

\* lines 262-264: the colors the plotting library has for the session drivers
SessionColors ==
    [d \in {AllDrivers[i] : i \in 1..Len(AllDrivers)} |->
        CASE d = "VER" -> "#0600ef"
          [] d = "NOR" -> "#ff8700"
          [] d = "HAM" -> "#00d2be"
          [] OTHER -> "#dc0000"]
BuildColorsMap(drvs, cmap) ==
    IF cmap = None
    THEN [d \in {drvs[i] : i \in 1..Len(drvs)} |-> SessionColors[d]]
    ELSE cmap.v

\* np.interp(x, xp, fp) times InterpScale: fp[1] left of the samples, fp[n]
\* right of them, linear in between
Interp(x, xp, fp) ==
    LET n == Len(xp)
    IN  IF x <= xp[1] THEN InterpScale * fp[1]
        ELSE IF x >= xp[n] THEN InterpScale * fp[n]
        ELSE LET j == CHOOSE k \in 1..(n - 1) : xp[k] <= x /\ x < xp[k + 1]
             IN  InterpScale * fp[j]
                 + ((fp[j + 1] - fp[j]) * (x - xp[j]) * InterpScale)
                   \div (xp[j + 1] - xp[j])

\* lines 273-275 for one column of the telemetry
InterpColumn(grid, t, col) ==
    LET xp == [i \in 1..Len(t) |-> t[i].Distance]
        fp == [i \in 1..Len(t) |-> t[i][col]]
    IN  [p \in 1..Len(grid) |-> Interp(grid[p], xp, fp)]

\* line 278: rolling(window=w, center=True, min_periods=1).mean(): the window
\* of (0-based) row i is rows i + (w-1)//2 + 1 - w .. i + (w-1)//2, cut at
\* the ends of the array
RollingMean(v, w) ==
    [i \in 1..Len(v) |->
        LET off == (w - 1) \div 2
            hi  == Min(Len(v), i + off)
            lo  == Max(1, i + off + 1 - w)
        IN  <<SumSeq(SubSeq(v, lo, hi)), hi - lo + 1>>]

\* a <= b for two means <<sum, count>>
MeanLE(a, b) == a[1] * b[2] <= b[1] * a[2]

\* line 290: np.argmax(speeds, axis=0) at one grid point: the first row that
\* holds the maximum
ArgmaxLast(col) ==
    CHOOSE i \in 1..Len(col) :
        /\ \A j \in 1..Len(col) : MeanLE(col[j], col[i])
        /\ \A j \in (i + 1)..Len(col) : ~MeanLE(col[i], col[j])
Argmax(col) ==
    CHOOSE i \in 1..Len(col) :
        /\ \A j \in 1..Len(col) : MeanLE(col[j], col[i])
        /\ \A j \in 1..(i - 1) : ~MeanLE(col[i], col[j])

\* lines 269-282: the smoothed speed curve of every driver of the list
SmoothedSpeeds(drvs, tels, grid, w) ==
    [k \in 1..Len(drvs) |-> RollingMean(InterpColumn(grid, tels[drvs[k]], "Speed"), w)]

\* lines 290-291: the fastest driver at every grid point
FastestDrivers(drvs, tels, grid, w) ==
    LET sp == SmoothedSpeeds(drvs, tels, grid, w)
    IN  [p \in 1..Len(grid) |-> drvs[Argmax([k \in 1..Len(drvs) |-> sp[k][p]])]]

\* line 292: colors_map[d] raises KeyError for a d that is no key; the
\* lookup is made for the fastest drivers only
ColorLookupFailsEager(drvs, fastest, cmap) ==
    \E i \in 1..Len(drvs) : drvs[i] \notin DOMAIN cmap
ColorLookupFails(drvs, fastest, cmap) ==
    \E p \in 1..Len(fastest) : fastest[p] \notin DOMAIN cmap

\* cos and sin of np.deg2rad(deg) for the right angles the model uses
Cos(deg) == CASE deg % 360 = 0 -> 1 [] deg % 360 = 180 -> 0 - 1 [] OTHER -> 0
Sin(deg) == CASE deg % 360 = 90 -> 1 [] deg % 360 = 270 -> 0 - 1 [] OTHER -> 0

\* lines 295-306: the mean X, Y over the drivers, rotated
TrackPoints(drvs, tels, grid, rot) ==
    LET n   == Len(drvs)
        xs  == [k \in 1..n |-> InterpColumn(grid, tels[drvs[k]], "X")]
        ys  == [k \in 1..n |-> InterpColumn(grid, tels[drvs[k]], "Y")]
        deg == IF rot = None THEN CircuitInfoRotation ELSE rot.v
    IN  [p \in 1..Len(grid) |->
            LET x == SumSeq([k \in 1..n |-> xs[k][p]])
                y == SumSeq([k \in 1..n |-> ys[k][p]])
            IN  <<Ratio(x * Cos(deg) - y * Sin(deg), n * InterpScale),
                  Ratio(x * Sin(deg) + y * Cos(deg), n * InterpScale)>>]

\* line 307: np.concatenate([points[:-1], points[1:]], axis=1)
Segments(points) == [i \in 1..(Len(points) - 1) |-> <<points[i], points[i + 1]>>]

\* plotset.py line 143: colors[:-1]
DropLast(q) == SubSeq(q, 1, Len(q) - 1)

\* ----- the inputs the model draws from -----
DomDrivers == {"VER", "NOR", "HAM"}
DriverLists ==
    UNION { {q \in [1..n -> DomDrivers] : \A i, j \in 1..n : i # j => q[i] # q[j]}
            : n \in 1..MaxDrivers }
\* fastest-lap telemetry: samples at 1 m, 3 m and 5 m
SpeedProfiles == {<<100, 100, 100>>, <<104, 100, 96>>, <<101, 101, 101>>}
DomTelemetries ==
    { [i \in 1..3 |-> [Distance |-> 2 * i - 1, X |-> 100 * i, Y |-> 7 * i * i,
                       Speed |-> sp[i]]]
      : sp \in SpeedProfiles }
ColorMaps ==
    {None} \cup
    { [kind |-> "dict", v |-> [d \in S |-> SessionColors[d]]]
      : S \in {DomDrivers} \cup {DomDrivers \ {d} : d \in DomDrivers} }

InitDom ==
    /\ pc = "call"
    /\ ret = NoValue
    /\ exc = "none"
    /\ drivers \in DriverLists
    /\ fastest_tel \in [{drivers[i] : i \in 1..Len(drivers)} -> DomTelemetries]
    /\ circuit_length \in 1..MaxLen
    /\ window_size \in 1..MaxWindow
    /\ rotation \in {None, Num(90)}
    /\ colors_map \in ColorMaps
    /\ plot_colors = <<>>
    /\ dj = 0
    /\ FuelIdle
    /\ AccIdle
    /\ AccDfIdle
    /\ StintIdle
    /\ CornerIdle

\* the whole call of compute_track_dominance_multi
compute_track_dominance_multi ==
    /\ pc = "call"
    /\ LET grid    == DistanceGrid(circuit_length)
           cmap    == BuildColorsMap(drivers, colors_map)
           fastest == FastestDrivers(drivers, fastest_tel, grid, window_size)
       IN  IF ColorLookupFails(drivers, fastest, cmap)
           THEN /\ pc' = "raised"
                /\ exc' = "KeyError"
                /\ ret' = NoValue
           ELSE LET points == TrackPoints(drivers, fastest_tel, grid, rotation)
                IN  /\ pc' = "done"
                    /\ exc' = "none"
                    /\ ret' = Returned(
                          [points   |-> points,
                           segments |-> Segments(points),
                           colors   |-> [p \in 1..Len(grid) |-> cmap[fastest[p]]]])
    /\ UNCHANGED <<fuelVars, accVars, accDfVars, callVars, stintVars, cornerVars,
                   fastest_tel, domVars>>

\* plot_track_dominance(points, segments, colors) on the returned arrays
plot_track_dominance ==
    /\ pc = "done"
    /\ pc' = "plotted"
    /\ plot_colors' = DropLast(ret.value.colors)
    /\ UNCHANGED <<ret, exc, fuelVars, accVars, accDfVars, callVars, stintVars,
                   cornerVars, fastest_tel, circuit_length, window_size, rotation,
                   colors_map>>

NextDom == compute_track_dominance_multi \/ plot_track_dominance

SpecDom == InitDom /\ [][NextDom]_vars

(***************************************************************************)
(* Claims about compute_track_dominance_multi                              *)
(***************************************************************************)
\* the smoothed interpolated speed <<sum, count>> of the k-th driver of the
\* list at grid point p (p = 1 is distance 0)
SmoothedAt(k, p) ==
    RollingMean(InterpColumn([i \in 1..(circuit_length + 1) |-> i - 1],
                             fastest_tel[drivers[k]], "Speed"),
                window_size)[p]

\* driver k is the first driver of the list whose smoothed speed at p is the
\* maximum over all drivers
FirstFastest(k, p) ==
    /\ \A j \in 1..Len(drivers) : MeanLE(SmoothedAt(j, p), SmoothedAt(k, p))
    /\ \A j \in 1..(k - 1) : ~MeanLE(SmoothedAt(k, p), SmoothedAt(j, p))

\* the colour the call uses for driver d
ColorOf(d) == IF colors_map = None THEN SessionColors[d] ELSE colors_map.v[d]

Finished == pc \in {"done", "plotted"}

\* C1 as stated: points has L+1 entries, segments has (number of points - 1)
\* entries and colors has as many entries as segments.
C1_Original ==
    Finished =>
        /\ Len(ret.value.points) = circuit_length + 1
        /\ Len(ret.value.segments) = Len(ret.value.points) - 1
        /\ Len(ret.value.colors) = Len(ret.value.segments)

\* C1 amended: points has L+1 entries, segments has (number of points - 1)
\* entries, and colors has one entry per point, one more than segments;
\* plot_track_dominance drops the last color to match the segments.
C1_OneColorPerPoint ==
    Finished =>
        /\ Len(ret.value.points) = circuit_length + 1
        /\ Len(ret.value.segments) = Len(ret.value.points) - 1
        /\ Len(ret.value.colors) = Len(ret.value.points)
        /\ Len(ret.value.colors) = Len(ret.value.segments) + 1
        /\ pc = "plotted" =>
              /\ Len(plot_colors) = Len(ret.value.segments)
              /\ \A i \in 1..Len(plot_colors) : plot_colors[i] = ret.value.colors[i]

\* a plotted result of a circuit of at least 2 m
C1_Witness ==
    /\ pc = "plotted"
    /\ circuit_length >= 2
    /\ Len(drivers) >= 2
    /\ Len(ret.value.colors) = circuit_length + 1
    /\ Len(plot_colors) = circuit_length

\* C7 as stated: with a colors_map given, the call fails with a lookup error
\* whenever some driver of the list is no key of colors_map, fastest anywhere
\* or not, and returns only when every driver of the list has a color.
C7_Original ==
    (pc # "call" /\ colors_map # None) =>
        IF \E i \in 1..Len(drivers) : drivers[i] \notin DOMAIN colors_map.v
        THEN pc = "raised" /\ exc = "KeyError"
        ELSE Finished

\* C7 amended: with a colors_map given, the call fails with a lookup error
\* (returning nothing) exactly when some driver that is the first fastest at
\* one grid point at least is no key of colors_map; a driver without a color
\* that is fastest nowhere does not make it fail.
C7_LookupFailsOnlyForFastest ==
    (pc # "call" /\ colors_map # None) =>
        IF \E p \in 1..(circuit_length + 1) : \E k \in 1..Len(drivers) :
              FirstFastest(k, p) /\ drivers[k] \notin DOMAIN colors_map.v
        THEN pc = "raised" /\ exc = "KeyError" /\ ret = NoValue
        ELSE Finished /\ exc = "none" /\ ret.returned

\* arrays returned although a driver of the list has no color
C7_Witness ==
    /\ pc = "done"
    /\ colors_map # None
    /\ \E i \in 1..Len(drivers) : drivers[i] \notin DOMAIN colors_map.v
    /\ Len(ret.value.colors) = circuit_length + 1

\* C9: at every grid point the emitted color is the color of the first driver
\* of the list whose smoothed speed there is the maximum over all drivers;
\* for two drivers, the color changes between two neighbouring grid points
\* exactly where the order of their smoothed speeds changes.
C9_FirstFastestColor ==
    Finished =>
        /\ \A p \in 1..Len(ret.value.colors) :
              \E k \in 1..Len(drivers) :
                  FirstFastest(k, p) /\ ret.value.colors[p] = ColorOf(drivers[k])
        /\ Len(drivers) = 2 =>
              \A p \in 1..(Len(ret.value.colors) - 1) :
                  (ret.value.colors[p] # ret.value.colors[p + 1])
                     <=> (MeanLE(SmoothedAt(2, p), SmoothedAt(1, p))
                            # MeanLE(SmoothedAt(2, p + 1), SmoothedAt(1, p + 1)))

\* two drivers whose curves cross: the second is strictly faster at one grid
\* point, both are equally fast at the next, which gets the first driver's
\* color
C9_Witness ==
    /\ pc = "done"
    /\ Len(drivers) = 2
    /\ \E p \in 1..(Len(ret.value.colors) - 1) :
          /\ ~MeanLE(SmoothedAt(2, p), SmoothedAt(1, p))
          /\ ret.value.colors[p] = ColorOf(drivers[2])
          /\ MeanLE(SmoothedAt(2, p + 1), SmoothedAt(1, p + 1))
          /\ MeanLE(SmoothedAt(1, p + 1), SmoothedAt(2, p + 1))
          /\ ret.value.colors[p + 1] = ColorOf(drivers[1])

====
